---- MODULE Spec2Model ----
(***************************************************************************)
(* martini DataCube (src/martini/_datacube.py): the 4-D sample array, its  *)
(* WCS calibration, padding, spectral-mode conversion and copy().          *)
(*                                                                         *)
(* Python objects are modelled as a heap: a DataCube holds a reference to  *)
(* an ndarray (arrHeap) and a reference to a WCS object (wcsHeap), so that *)
(* sharing a reference between two cubes is visible.                       *)
(*                                                                         *)
(* Numbers.  Velocities are expressed in units of c/SpeedOfLight and       *)
(* frequencies in units of f0/HIfreq, which makes the radio-Doppler        *)
(* conversion f = f0*(1 - v/c) an exact integer map.  Arithmetic is exact; *)
(* floating-point rounding is not modelled.  Reference pixels are stored   *)
(* doubled (crpix holds 2*CRPIX) because the spatial reference pixel       *)
(* n/2 + 0.5 is a half-integer.                                            *)
(*                                                                         *)
(* The particle source (martini.sources.SPHSource) is exercised by         *)
(* src/tests/test_sources.py; its operations are modelled from their       *)
(* specification and from what the tests assert.                           *)
(***************************************************************************)
EXTENDS Integers, Sequences, FiniteSets, TLC

\* ---------------------------------------------------------------- bounds
MaxGrids == 2        \* DataCube objects alive at once (original + copies)
MaxPx == 2           \* n_px_x, n_px_y are drawn from 1..MaxPx
MaxChannels == 2     \* n_channels is drawn from 1..MaxChannels
MaxPad == 1          \* pad components are drawn from 0..MaxPad
MaxWrites == 1       \* element writes (deposition) per behaviour
MaxRaises == 1       \* calls that raise an exception per behaviour
MaxPart == 3         \* particle arrays are N x 3 or 3 x N for N in 1..MaxPart
MaxRotations == 2    \* rotate calls per behaviour
MaxTranslations == 1 \* translate_position / translate_velocity calls

\* ------------------------------------------------------------- constants
HIfreq == 8          \* rest frequency, in model frequency units
SpeedOfLight == 4    \* c, in model velocity units

Grids == 1..MaxGrids
ArrIds == 1..MaxGrids
WcsIds == 1..MaxGrids
Pads == (0..MaxPad) \X (0..MaxPad)
ChannelWidths == {-2, 2}
VelocityCentres == {0, 2}

VARIABLES
    live,       \* set of constructed DataCube objects
    cube,       \* cube[g]: the attributes of DataCube g
    arrHeap,    \* arrHeap[a]: the ndarray object a (shape and data)
    wcsHeap,    \* wcsHeap[w]: the WCS object w
    writes,     \* number of element writes so far
    raises,     \* number of calls that raised so far
    source,     \* the attributes of the SPHSource, once constructed
    outcome,    \* the last call on the source and how it ended
    rotations,  \* the matrices of the rotate calls so far, first call first
    rotfile,    \* content of the file save_current_rotation wrote
    ntranslate  \* number of translate calls so far

cubeVars == <<live, cube, arrHeap, wcsHeap, writes, raises>>

sourceVars == <<source, outcome, rotations, rotfile, ntranslate>>

vars == <<live, cube, arrHeap, wcsHeap, writes, raises,
          source, outcome, rotations, rotfile, ntranslate>>

Abs(x) == IF x < 0 THEN -x ELSE x

Min(S) == CHOOSE x \in S : \A y \in S : x <= y

\* ------------------------------------------------------------- ndarrays
Index(sx, sy, nc) == (0..(sx - 1)) \X (0..(sy - 1)) \X (0..(nc - 1))

\* np.zeros((sx, sy, nc, 1))
Zeros(sx, sy, nc) ==
    [sx |-> sx, sy |-> sy, nc |-> nc,
     data |-> [idx \in Index(sx, sy, nc) |-> 0]]

NoArray == Zeros(0, 0, 0)

\* number of elements a Python slice a[p:-p] selects on an axis of length n
SliceLen(n, p) == IF p = 0 THEN 0 ELSE IF n - 2 * p > 0 THEN n - 2 * p ELSE 0

\* a[px:-px, py:-py, ...]
Slice(a, px, py) ==
    [sx |-> SliceLen(a.sx, px), sy |-> SliceLen(a.sy, py), nc |-> a.nc,
     data |-> [idx \in Index(SliceLen(a.sx, px), SliceLen(a.sy, py), a.nc) |->
                  a.data[<<idx[1] + px, idx[2] + py, idx[3]>>]]]

\* numpy broadcasting of a source axis of length s onto a target of length t
Broadcastable(s, t) == s = t \/ s = 1

\* a[px:-px, py:-py, ...] = tmp, when the shapes broadcast
SetSlice(a, px, py, tmp) ==
    [a EXCEPT !.data =
        [idx \in DOMAIN a.data |->
            IF /\ idx[1] >= px /\ idx[1] < px + SliceLen(a.sx, px)
               /\ idx[2] >= py /\ idx[2] < py + SliceLen(a.sy, py)
            THEN tmp.data[<<IF tmp.sx = 1 THEN 0 ELSE idx[1] - px,
                            IF tmp.sy = 1 THEN 0 ELSE idx[2] - py,
                            idx[3]>>]
            ELSE a.data[idx]]]

\* ------------------------------------------------------------------ WCS
\* doppler_radio(HIfreq): velocity -> frequency and back
convert_to_Hz(v) == HIfreq - (HIfreq * v) \div SpeedOfLight

convert_to_ms(f) == SpeedOfLight - (SpeedOfLight * f) \div HIfreq

\* the WCS object built by __init__ (crpix doubled)
NewWcs(nx, ny, nc, cw, vc) ==
    [crpix |-> <<nx + 1, ny + 1, 2 * (nc \div 2)>>,
     cdelt |-> <<-1, 1, cw>>,
     crval |-> <<0, 0, vc>>,
     ctype |-> <<"RA---TAN", "DEC--TAN", "VELO-OBS">>,
     cunit |-> <<"deg", "deg", "m s-1">>]

NoWcs == NewWcs(0, 0, 0, 0, 0)

\* wcs_pix2world(..., 0)[2] on the linear spectral axis, for the 0-based
\* pixel coordinate p2/2
pix2world(w, p2) == w.crval[3] + (w.cdelt[3] * (p2 + 2 - w.crpix[3])) \div 2

channel_mids(w, nc) == [i \in 1..nc |-> pix2world(w, 2 * (i - 1))]

channel_edges(w, nc) == [i \in 1..(nc + 1) |-> pix2world(w, 2 * (i - 1) - 1)]

\* ------------------------------------------------------------- DataCube
\* attributes set by __init__; array and wcs are the references it stores
DataCubeInit(nx, ny, nc, cw, vc, a, w) ==
    [n_px_x |-> nx, n_px_y |-> ny, n_channels |-> nc,
     channel_width |-> cw, velocity_centre |-> vc,
     padx |-> 0, pady |-> 0,
     array |-> a, wcs |-> w,
     units3 |-> "m s-1",
     channel_mids |-> channel_mids(NewWcs(nx, ny, nc, cw, vc), nc),
     channel_edges |-> channel_edges(NewWcs(nx, ny, nc, cw, vc), nc),
     freq_channel_mode |-> FALSE]

NoCube == DataCubeInit(0, 0, 0, 0, 0, 0, 0)

Arr(g) == arrHeap[cube[g].array]

Wcs(g) == wcsHeap[cube[g].wcs]

\* an array slot no other live cube refers to
NewArrayId(g) == Min({a \in ArrIds : \A h \in live \ {g} : cube[h].array # a})

\* ------------------------------------------------------------ SPHSource
\* a 3 x 3 matrix is a tuple of rows
Identity == <<<<1, 0, 0>>, <<0, 1, 0>>, <<0, 0, 1>>>>

\* the state before SPHSource(...) has returned
NoSource ==
    [constructed |-> FALSE, npart |-> 0, xyz |-> <<>>, vxyz |-> <<>>,
     T_g |-> <<>>, mHI_g |-> <<>>, hsm_g |-> 0,
     current_rotation |-> Identity, projected |-> FALSE]

Init ==
    \E nx \in 1..MaxPx, ny \in 1..MaxPx, nc \in 1..MaxChannels,
       cw \in ChannelWidths, vc \in VelocityCentres :
        /\ live = {1}
        /\ cube = [g \in Grids |->
                     IF g = 1 THEN DataCubeInit(nx, ny, nc, cw, vc, 1, 1)
                     ELSE NoCube]
        /\ arrHeap = [a \in ArrIds |->
                        IF a = 1 THEN Zeros(nx, ny, nc) ELSE NoArray]
        /\ wcsHeap = [w \in WcsIds |->
                        IF w = 1 THEN NewWcs(nx, ny, nc, cw, vc) ELSE NoWcs]
        /\ writes = 0
        /\ raises = 0
        /\ source = NoSource
        /\ outcome = [op |-> "none", result |-> "ok"]
        /\ rotations = <<>>
        /\ rotfile = <<>>
        /\ ntranslate = 0

\* the array heap after cube g rebinds self._array to a new array object
\* holding value a: the object it referred to before is released unless
\* another cube still refers to it
Rebind(g, a) ==
    [s \in ArrIds |->
        IF s = NewArrayId(g) THEN a
        ELSE IF s = cube[g].array /\ \A h \in live \ {g} : cube[h].array # s
             THEN NoArray
             ELSE arrHeap[s]]

\* ---------------------------------------------------------------- write
\* an element of the sample array is written (deposition onto the cube)
write(g, idx) ==
    /\ g \in live
    /\ writes < MaxWrites
    /\ idx \in DOMAIN Arr(g).data
    /\ Arr(g).data[idx] = 0
    /\ arrHeap' = [arrHeap EXCEPT ![cube[g].array].data[idx] = 1]
    /\ writes' = writes + 1
    /\ UNCHANGED <<live, cube, wcsHeap, raises>>
    /\ UNCHANGED sourceVars

\* -------------------------------------------------------- freq_channels
\* the WCS object after the in-place updates of freq_channels
freq_wcs(w) ==
    [w EXCEPT !.cdelt[3] = Abs(convert_to_Hz(w.cdelt[3]) - convert_to_Hz(0)),
              !.crval[3] = convert_to_Hz(w.crval[3]),
              !.ctype[3] = "FREQ-OBS",
              !.cunit[3] = "Hz"]

\* wcsHeap after freq_channels() on g
freq_channels_wcs(g) ==
    IF cube[g].freq_channel_mode THEN wcsHeap
    ELSE [wcsHeap EXCEPT ![cube[g].wcs] = freq_wcs(Wcs(g))]

\* freq_channels() without the assignment of the mode flag on line 93
freq_channels_cube_unflagged(g) ==
    IF cube[g].freq_channel_mode THEN cube
    ELSE [cube EXCEPT
            ![g].units3 = "Hz",
            ![g].channel_mids =
                channel_mids(freq_wcs(Wcs(g)), cube[g].n_channels),
            ![g].channel_edges =
                channel_edges(freq_wcs(Wcs(g)), cube[g].n_channels)]

\* cube after freq_channels() on g
freq_channels_cube(g) ==
    IF cube[g].freq_channel_mode THEN cube
    ELSE [cube EXCEPT
            ![g].units3 = "Hz",
            ![g].channel_mids =
                channel_mids(freq_wcs(Wcs(g)), cube[g].n_channels),
            ![g].channel_edges =
                channel_edges(freq_wcs(Wcs(g)), cube[g].n_channels),
            ![g].freq_channel_mode = TRUE]

freq_channels(g) ==
    /\ g \in live
    /\ wcsHeap' = freq_channels_wcs(g)
    /\ cube' = freq_channels_cube(g)
    /\ UNCHANGED <<live, arrHeap, writes, raises>>
    /\ UNCHANGED sourceVars

\* ---------------------------------------------------- velocity_channels
\* the WCS object after the in-place updates of velocity_channels
velocity_wcs(w) ==
    [w EXCEPT !.cdelt[3] = Abs(convert_to_ms(w.cdelt[3]) - convert_to_ms(0)),
              !.crval[3] = convert_to_ms(w.crval[3]),
              !.ctype[3] = "VELO-OBS",
              !.cunit[3] = "m s-1"]

\* wcsHeap after velocity_channels() on g
velocity_channels_wcs(g) ==
    IF ~cube[g].freq_channel_mode THEN wcsHeap
    ELSE [wcsHeap EXCEPT ![cube[g].wcs] = velocity_wcs(Wcs(g))]

\* velocity_channels() without the recomputation of the channel caches
velocity_channels_cube_stale(g) ==
    IF ~cube[g].freq_channel_mode THEN cube
    ELSE [cube EXCEPT
            ![g].units3 = "m s-1",
            ![g].freq_channel_mode = FALSE]

\* cube after velocity_channels() on g
velocity_channels_cube(g) ==
    IF ~cube[g].freq_channel_mode THEN cube
    ELSE [cube EXCEPT
            ![g].units3 = "m s-1",
            ![g].channel_mids =
                channel_mids(velocity_wcs(Wcs(g)), cube[g].n_channels),
            ![g].channel_edges =
                channel_edges(velocity_wcs(Wcs(g)), cube[g].n_channels),
            ![g].freq_channel_mode = FALSE]

velocity_channels(g) ==
    /\ g \in live
    /\ wcsHeap' = velocity_channels_wcs(g)
    /\ cube' = velocity_channels_cube(g)
    /\ UNCHANGED <<live, arrHeap, writes, raises>>
    /\ UNCHANGED sourceVars

\* -------------------------------------------------------------- add_pad
\* the zero array add_pad allocates for pad
padded_zeros(g, pad) ==
    Zeros(cube[g].n_px_x + pad[1] * 2, cube[g].n_px_y + pad[2] * 2,
          cube[g].n_channels)

\* whether the assignment of the old array into the centre slice broadcasts;
\* when it does not, line 118 raises ValueError
pad_assignable(g, pad) ==
    /\ Broadcastable(Arr(g).sx, SliceLen(padded_zeros(g, pad).sx, pad[1]))
    /\ Broadcastable(Arr(g).sy, SliceLen(padded_zeros(g, pad).sy, pad[2]))

\* arrHeap after add_pad(pad) on g, whether it returns or raises
add_pad_arr(g, pad) ==
    IF pad_assignable(g, pad)
    THEN Rebind(g, SetSlice(padded_zeros(g, pad), pad[1], pad[2], Arr(g)))
    ELSE Rebind(g, padded_zeros(g, pad))

\* wcsHeap after add_pad(pad) on g
add_pad_wcs(g, pad) ==
    IF pad_assignable(g, pad)
    THEN [wcsHeap EXCEPT ![cube[g].wcs].crpix[1] = @ + 2 * pad[1],
                         ![cube[g].wcs].crpix[2] = @ + 2 * pad[2]]
    ELSE wcsHeap

\* cube after add_pad(pad) on g
add_pad_cube(g, pad) ==
    [cube EXCEPT
       ![g].array = NewArrayId(g),
       ![g].padx = IF pad_assignable(g, pad) THEN pad[1] ELSE @,
       ![g].pady = IF pad_assignable(g, pad) THEN pad[2] ELSE @]

add_pad(g, pad) ==
    /\ g \in live
    /\ pad \in Pads
    /\ pad_assignable(g, pad) \/ raises < MaxRaises
    /\ arrHeap' = add_pad_arr(g, pad)
    /\ wcsHeap' = add_pad_wcs(g, pad)
    /\ cube' = add_pad_cube(g, pad)
    /\ raises' = IF pad_assignable(g, pad) THEN raises ELSE raises + 1
    /\ UNCHANGED <<live, writes>>
    /\ UNCHANGED sourceVars

\* ------------------------------------------------------------- drop_pad
\* arrHeap after drop_pad() on g
drop_pad_arr(g) ==
    IF cube[g].padx = 0 /\ cube[g].pady = 0 THEN arrHeap
    ELSE Rebind(g, Slice(Arr(g), cube[g].padx, cube[g].pady))

\* drop_pad() without the shift of crpix on line 127
drop_pad_wcs_unshifted(g) == wcsHeap

\* wcsHeap after drop_pad() on g
drop_pad_wcs(g) ==
    IF cube[g].padx = 0 /\ cube[g].pady = 0 THEN wcsHeap
    ELSE [wcsHeap EXCEPT ![cube[g].wcs].crpix[1] = @ - 2 * cube[g].padx,
                         ![cube[g].wcs].crpix[2] = @ - 2 * cube[g].pady]

\* cube after drop_pad() on g
drop_pad_cube(g) ==
    IF cube[g].padx = 0 /\ cube[g].pady = 0 THEN cube
    ELSE [cube EXCEPT ![g].array = NewArrayId(g),
                      ![g].padx = 0, ![g].pady = 0]

drop_pad(g) ==
    /\ g \in live
    /\ arrHeap' = drop_pad_arr(g)
    /\ wcsHeap' = drop_pad_wcs(g)
    /\ cube' = drop_pad_cube(g)
    /\ UNCHANGED <<live, writes, raises>>
    /\ UNCHANGED sourceVars

\* ----------------------------------------------------------------- copy
\* copy._array = self._array, without the .copy()
copy_array_shared(g, h) == cube[g].array

\* the array object copy._array is bound to: self._array.copy() is a new one
copy_array(g, h) == NewArrayId(h)

\* the WCS object copy.wcs is bound to: copy.wcs = self.wcs
copy_wcs(g, h) == cube[g].wcs

\* copy() on g, the new DataCube being h
copy(g, h) ==
    /\ g \in live
    /\ live # Grids
    /\ h = Min(Grids \ live)
    /\ live' = live \cup {h}
    /\ cube' = [cube EXCEPT ![h] =
         [DataCubeInit(cube[g].n_px_x, cube[g].n_px_y, cube[g].n_channels,
                       cube[g].channel_width, cube[g].velocity_centre,
                       copy_array(g, h), copy_wcs(g, h))
          EXCEPT !.padx = cube[g].padx, !.pady = cube[g].pady]]
    /\ arrHeap' = [arrHeap EXCEPT ![copy_array(g, h)] = Arr(g)]
    /\ wcsHeap' = [wcsHeap EXCEPT ![copy_wcs(g, h)] = Wcs(g)]
    /\ UNCHANGED <<writes, raises>>
    /\ UNCHANGED sourceVars

\* -------------------------------------------------------------- spectra
\* spectra(): the rows of self._array[..., 0].reshape(n_px_x * n_px_y,
\* n_channels), or ValueError when the reshape is impossible
spectra(g) ==
    IF Arr(g).sx * Arr(g).sy * Arr(g).nc
         # cube[g].n_px_x * cube[g].n_px_y * cube[g].n_channels
    THEN [result |-> "ValueError", rows |-> <<>>]
    ELSE [result |-> "ok",
          rows |-> [r \in 1..(cube[g].n_px_x * cube[g].n_px_y) |->
                      [k \in 1..cube[g].n_channels |->
                         Arr(g).data[<<(r - 1) \div Arr(g).sy,
                                       (r - 1) % Arr(g).sy,
                                       k - 1>>]]]]

\* ------------------------------------------------- SPHSource.__init__
\* the shapes of the xyz_g / vxyz_g arguments: N x 3 or 3 x N
ParticleShapes ==
    {<<n, 3>> : n \in 1..MaxPart} \cup {<<3, n>> : n \in 1..MaxPart}

\* coordinate_axis: 0, 1, or -1 for None (not given)
CoordinateAxes == {-1, 0, 1}

\* a 2-d input array whose element [r, c] is base + 10 * r + c, so that every
\* element tells its own index
InputArray(shape, base) ==
    [shape |-> shape,
     data |-> [rc \in (0..(shape[1] - 1)) \X (0..(shape[2] - 1)) |->
                 base + 10 * rc[1] + rc[2]]]

\* the 3 components of particle i (0-based) when axis `axis` of the array
\* indexes the components
particle(a, axis, i) ==
    IF axis = 0
    THEN <<a.data[<<0, i>>], a.data[<<1, i>>], a.data[<<2, i>>]>>
    ELSE <<a.data[<<i, 0>>], a.data[<<i, 1>>], a.data[<<i, 2>>]>>

\* the axis of length 3; called only when the shape is not 3 x 3
guess_coordinate_axis(shape) == IF shape[1] = 3 THEN 0 ELSE 1

\* the constructor without the check for a 3 x 3 shape
construct_errors_unguarded(xs, vs, axis) ==
    IF xs # vs THEN {"ShapeMismatchError"} ELSE {}

\* the errors the constructor can raise for these arguments; a 3 x 3
\* position array with a velocity array of another shape and no axis fails
\* in one of the two ways
construct_errors(xs, vs, axis) ==
    (IF axis = -1 /\ xs = <<3, 3>> THEN {"AmbiguousShapeError"} ELSE {})
      \cup (IF xs # vs THEN {"ShapeMismatchError"} ELSE {})

\* the ensemble built from arrays of shape xs (positions, elements from 0)
\* and vs (velocities, elements from 100); T_g and mHI_g are per-particle,
\* hsm_g is a scalar
constructed_source(xs, vs, axis) ==
    LET ax == IF axis = -1 THEN guess_coordinate_axis(xs) ELSE axis
        n  == xs[2 - ax]
    IN  [constructed |-> TRUE,
         npart |-> n,
         xyz  |-> [i \in 1..n |-> particle(InputArray(xs, 0), ax, i - 1)],
         vxyz |-> [i \in 1..n |-> particle(InputArray(vs, 100), ax, i - 1)],
         T_g   |-> [i \in 1..n |-> 50 + i],
         mHI_g |-> [i \in 1..n |-> 70 + i],
         hsm_g |-> 9,
         current_rotation |-> Identity,
         projected |-> FALSE]

\* SPHSource(xyz_g=..., vxyz_g=..., coordinate_axis=...); an explicit
\* coordinate_axis names an axis of length 3
construct(xs, vs, axis) ==
    /\ ~source.constructed
    /\ axis # -1 => xs[axis + 1] = 3
    /\ IF construct_errors(xs, vs, axis) # {}
       THEN /\ \E e \in construct_errors(xs, vs, axis) :
                  outcome' = [op |-> "construct", result |-> e,
                              xs |-> xs, vs |-> vs, axis |-> axis]
            /\ UNCHANGED source
       ELSE /\ source' = constructed_source(xs, vs, axis)
            /\ outcome' = [op |-> "construct", result |-> "ok",
                           xs |-> xs, vs |-> vs, axis |-> axis]
    /\ UNCHANGED <<rotations, rotfile, ntranslate>>
    /\ UNCHANGED cubeVars

\* ----------------------------------------------------------- apply_mask
\* a 1-d mask array: its dtype and its entries
Masks ==
    {[dtype |-> d, vals |-> v] :
       d \in {"bool", "int"},
       v \in UNION {[1..n -> {0, 1}] : n \in 1..MaxPart}}

mask_sum(mask) == Cardinality({i \in 1..Len(mask.vals) : mask.vals[i] = 1})

\* numpy's arr[mask] along the particle axis: a boolean mask selects the
\* entries where it is True, an integer array takes the entries at the
\* (0-based) indices it lists
take(arr, mask) ==
    IF mask.dtype = "bool"
    THEN LET idx == SelectSeq([i \in 1..Len(mask.vals) |-> i],
                              LAMBDA i : mask.vals[i] = 1)
         IN  [k \in 1..Len(idx) |-> arr[idx[k]]]
    ELSE [k \in 1..Len(mask.vals) |-> arr[mask.vals[k] + 1]]

\* the index arr[mask] is defined: an integer index must be within the array
indexable(arr, mask) ==
    mask.dtype = "int" =>
        \A k \in 1..Len(mask.vals) : mask.vals[k] + 1 <= Len(arr)

\* apply_mask without the check for an empty selection
apply_mask_error_unchecked(mask) ==
    IF Len(mask.vals) # source.npart THEN "LengthMismatchError" ELSE "ok"

\* the length is checked first, then the selection; both before any write
apply_mask_error(mask) ==
    IF Len(mask.vals) # source.npart THEN "LengthMismatchError"
    ELSE IF mask_sum(mask) = 0 THEN "EmptySelectionError"
    ELSE "ok"

apply_mask_source(mask) ==
    [source EXCEPT !.xyz = take(source.xyz, mask),
                   !.vxyz = take(source.vxyz, mask),
                   !.T_g = take(source.T_g, mask),
                   !.mHI_g = take(source.mHI_g, mask),
                   !.npart = Len(take(source.xyz, mask))]

apply_mask(mask) ==
    /\ source.constructed
    /\ apply_mask_error(mask) = "ok" => indexable(source.xyz, mask)
    /\ source' = IF apply_mask_error(mask) = "ok"
                 THEN apply_mask_source(mask)
                 ELSE source
    /\ outcome' = [op |-> "apply_mask", result |-> apply_mask_error(mask),
                   mask |-> mask]
    /\ UNCHANGED <<rotations, rotfile, ntranslate>>
    /\ UNCHANGED cubeVars

\* --------------------------------------------------------------- rotate
MatMul(A, B) ==
    [i \in 1..3 |-> [j \in 1..3 |->
        A[i][1] * B[1][j] + A[i][2] * B[2][j] + A[i][3] * B[3][j]]]

\* M . p for a column vector p
MatVec(M, p) ==
    [i \in 1..3 |-> M[i][1] * p[1] + M[i][2] * p[2] + M[i][3] * p[3]]

\* p . M for a row vector p (numpy's p.dot(M))
VecMat(p, M) ==
    [j \in 1..3 |-> p[1] * M[1][j] + p[2] * M[2][j] + p[3] * M[3][j]]

\* quarter turns about z and about x
Rz90 == <<<<0, -1, 0>>, <<1, 0, 0>>, <<0, 0, 1>>>>

Rx90 == <<<<1, 0, 0>>, <<0, 0, -1>>, <<0, 1, 0>>>>

\* the matrix of test_save_current_rotation,
\* [[0, -sin(pi/4), 0], [sin(pi/4), 0, 0], [0, 0, 1]], with 2 in the place of
\* sin(pi/4): like it, its first two rows are not unit vectors and its
\* determinant is not 1
Scaled == <<<<0, -2, 0>>, <<2, 0, 0>>, <<0, 0, 1>>>>

\* the rotmat arguments of rotate
RotMats == {Rz90, Rx90, Scaled}

\* right-multiplication of the cumulative orientation
rotate_orientation_right(M) == MatMul(source.current_rotation, M)

\* new_orientation = rotation . old_orientation
rotate_orientation(M) == MatMul(M, source.current_rotation)

\* rotate(rotmat=M): the matrix is applied as given
rotate(M) ==
    /\ source.constructed
    /\ Len(rotations) < MaxRotations
    /\ source' = [source EXCEPT
           !.xyz = [i \in 1..Len(source.xyz) |-> MatVec(M, source.xyz[i])],
           !.vxyz = [i \in 1..Len(source.vxyz) |-> MatVec(M, source.vxyz[i])],
           !.current_rotation = rotate_orientation(M)]
    /\ rotations' = Append(rotations, M)
    /\ outcome' = [op |-> "rotate", result |-> "ok", rotmat |-> M]
    /\ UNCHANGED <<rotfile, ntranslate>>
    /\ UNCHANGED cubeVars

\* ------------------------------------------------------------ translate
\* a translation vector, given as a column (3, 1) or as a row (1, 3)
Translations ==
    {[shape |-> sh, vals |-> <<1, 1, 1>>] : sh \in {<<3, 1>>, <<1, 3>>}}

\* every particle is shifted by the vector, whichever its shape
translated(arr, t) ==
    [i \in 1..Len(arr) |-> [c \in 1..3 |-> arr[i][c] + t.vals[c]]]

translate_position(t) ==
    /\ source.constructed
    /\ ntranslate < MaxTranslations
    /\ source' = [source EXCEPT !.xyz = translated(source.xyz, t)]
    /\ ntranslate' = ntranslate + 1
    /\ outcome' = [op |-> "translate_position", result |-> "ok",
                   translation |-> t]
    /\ UNCHANGED <<rotations, rotfile>>
    /\ UNCHANGED cubeVars

translate_velocity(t) ==
    /\ source.constructed
    /\ ntranslate < MaxTranslations
    /\ source' = [source EXCEPT !.vxyz = translated(source.vxyz, t)]
    /\ ntranslate' = ntranslate + 1
    /\ outcome' = [op |-> "translate_velocity", result |-> "ok",
                   translation |-> t]
    /\ UNCHANGED <<rotations, rotfile>>
    /\ UNCHANGED cubeVars

\* ------------------------------------------------ save_current_rotation
\* the matrix is written as text with 18 decimals of mantissa, which a
\* reader parses back to the same numbers
save_current_rotation ==
    /\ source.constructed
    /\ rotfile' = source.current_rotation
    /\ outcome' = [op |-> "save_current_rotation", result |-> "ok"]
    /\ UNCHANGED <<source, rotations, ntranslate>>
    /\ UNCHANGED cubeVars

\* ------------------------------------------------------- sky projection
\* angles are whole quarter turns, so that cos and sin are integers
cos(q) == IF q % 4 = 0 THEN 1 ELSE IF q % 4 = 2 THEN -1 ELSE 0

sin(q) == IF q % 4 = 1 THEN 1 ELSE IF q % 4 = 3 THEN -1 ELSE 0

\* ra and dec, in quarter turns
Angles == {-1, 0, 1}

\* distance in kpc: 0 Mpc and 3 Mpc
Distances == {0, 3000}

\* vpeculiar in km/s
PeculiarVelocities == {0, 100}

\* h * 100 km/s/Mpc with h = 0.7
H0 == 70

R_y(dec) ==
    <<<<cos(dec), 0, sin(dec)>>, <<0, 1, 0>>, <<-sin(dec), 0, cos(dec)>>>>

R_z(a) == <<<<cos(a), -sin(a), 0>>, <<sin(a), cos(a), 0>>, <<0, 0, 1>>>>

\* the rotation with R_z(ra) in the place of R_z(-ra)
sky_rotmat_unnegated(ra, dec) == MatMul(R_y(dec), R_z(ra))

\* R_y(dec) . R_z(-ra)
sky_rotmat(ra, dec) == MatMul(R_y(dec), R_z(-ra))

\* rotmat.T.dot([1, 0, 0]): the image of +x
direction_vector(ra, dec) == VecMat(<<1, 0, 0>>, sky_rotmat(ra, dec))

\* the Hubble flow at the distance plus the peculiar velocity, in km/s
vsys(distance, vpeculiar) == (H0 * distance) \div 1000 + vpeculiar

\* every row p of arr becomes p . rotmat + shift * direction_vector
sky_coordinates(arr, ra, dec, shift) ==
    [i \in 1..Len(arr) |->
       [c \in 1..3 |-> VecMat(arr[i], sky_rotmat(ra, dec))[c]
                          + shift * direction_vector(ra, dec)[c]]]

\* the ensemble is placed at (ra, dec, distance) once
project_to_sky(ra, dec, distance, vpeculiar) ==
    /\ source.constructed
    /\ ~source.projected
    /\ source' = [source EXCEPT
           !.xyz = sky_coordinates(source.xyz, ra, dec, distance),
           !.vxyz = sky_coordinates(source.vxyz, ra, dec,
                                    vsys(distance, vpeculiar)),
           !.projected = TRUE]
    /\ outcome' = [op |-> "project_to_sky", result |-> "ok",
                   ra |-> ra, dec |-> dec, distance |-> distance,
                   vpeculiar |-> vpeculiar]
    /\ UNCHANGED <<rotations, rotfile, ntranslate>>
    /\ UNCHANGED cubeVars

\* ------------------------------------------------------- specifications
Write ==
    \E g \in Grids : \E idx \in Index(MaxPx + 2 * MaxPad, MaxPx + 2 * MaxPad,
                                      MaxChannels) : write(g, idx)

FreqChannels == \E g \in Grids : freq_channels(g)

VelocityChannels == \E g \in Grids : velocity_channels(g)

AddPad == \E g \in Grids : \E pad \in Pads : add_pad(g, pad)

DropPad == \E g \in Grids : drop_pad(g)

Copy == \E g \in Grids : \E h \in Grids : copy(g, h)

\* the calls that act on the calibration and the extent: no element is written
NextCal ==
    \/ FreqChannels
    \/ VelocityChannels
    \/ AddPad
    \/ DropPad
    \/ Copy

SpecCal == Init /\ [][NextCal]_vars

\* the calls that act on the sample array, on cubes built with the default
\* spectral axis: the spectral mode is not switched
InitArr ==
    /\ Init
    /\ cube[1].channel_width = 2
    /\ cube[1].velocity_centre = 0

NextArr ==
    \/ Write
    \/ AddPad
    \/ DropPad
    \/ Copy

SpecArr == InitArr /\ [][NextArr]_vars

\* one cube that is never copied
NextSingle ==
    \/ FreqChannels
    \/ VelocityChannels
    \/ AddPad
    \/ DropPad

SpecSingle == Init /\ [][NextSingle]_vars

\* the particle source beside one cube of a fixed shape
InitSrc ==
    /\ Init
    /\ cube[1].n_px_x = 1
    /\ cube[1].n_px_y = 1
    /\ cube[1].n_channels = 1
    /\ cube[1].channel_width = 2
    /\ cube[1].velocity_centre = 0

Construct ==
    \E xs \in ParticleShapes : \E vs \in ParticleShapes :
        \E axis \in CoordinateAxes : construct(xs, vs, axis)

ApplyMask == \E mask \in Masks : apply_mask(mask)

\* construction and masking of the source
NextMask ==
    \/ Construct
    \/ ApplyMask

SpecMask == InitSrc /\ [][NextMask]_vars

\* an ensemble of one or two particles, from N x 3 arrays
ConstructRows == \E n \in 1..2 : construct(<<n, 3>>, <<n, 3>>, -1)

Rotate == \E M \in RotMats : rotate(M)

TranslatePosition == \E t \in Translations : translate_position(t)

TranslateVelocity == \E t \in Translations : translate_velocity(t)

SaveCurrentRotation == save_current_rotation

\* the operations that move and reduce a constructed ensemble
NextRot ==
    \/ ConstructRows
    \/ Rotate
    \/ TranslatePosition
    \/ TranslateVelocity
    \/ ApplyMask
    \/ SaveCurrentRotation

SpecRot == InitSrc /\ [][NextRot]_vars

ProjectToSky ==
    \E ra \in Angles : \E dec \in Angles : \E distance \in Distances :
        \E vpeculiar \in PeculiarVelocities :
            project_to_sky(ra, dec, distance, vpeculiar)

\* an ensemble is constructed, oriented and placed on the sky
NextSky ==
    \/ ConstructRows
    \/ Rotate
    \/ ProjectToSky

SpecSky == InitSrc /\ [][NextSky]_vars

\* every operation of the cube and of the source
Next ==
    \/ Write
    \/ FreqChannels
    \/ VelocityChannels
    \/ AddPad
    \/ DropPad
    \/ Copy
    \/ Construct
    \/ ApplyMask
    \/ Rotate
    \/ TranslatePosition
    \/ TranslateVelocity
    \/ SaveCurrentRotation
    \/ ProjectToSky

Spec == Init /\ [][Next]_vars

TypeOK ==
    /\ live \subseteq Grids
    /\ \A g \in live : cube[g].array \in ArrIds /\ cube[g].wcs \in WcsIds
    /\ writes \in 0..MaxWrites
    /\ raises \in 0..MaxRaises
    /\ source.constructed \in BOOLEAN
    /\ source.npart = Len(source.xyz)
    /\ Len(source.vxyz) = Len(source.xyz)
    /\ Len(rotations) \in 0..MaxRotations
    /\ ntranslate \in 0..MaxTranslations

\* ---------------------------------------------------------------- claims
\* a call on cube h that may touch calibration or extent
CalibrationCall(h) ==
    \/ \E pad \in Pads : add_pad(h, pad)
    \/ drop_pad(h)
    \/ freq_channels(h)
    \/ velocity_channels(h)

\* C1: a copy has its own calibration record: add_pad, drop_pad,
\* freq_channels or velocity_channels on one cube leaves the calibration
\* (crpix, crval, cdelt, ctype, cunit) of every other cube unchanged.
C1_CopyOwnsCalibration ==
    [][\A h \in live :
         CalibrationCall(h) => \A g \in live \ {h} : (Wcs(g))' = Wcs(g)]_vars

\* a call on cube h that may touch its sample array
ArrayCall(h) ==
    \/ \E idx \in DOMAIN Arr(h).data : write(h, idx)
    \/ \E pad \in Pads : add_pad(h, pad)
    \/ drop_pad(h)

\* C2: copy() never aliases the sample array: right after c = g.copy() the
\* two arrays have the same shape and elements and are distinct objects, and
\* a write, add_pad or drop_pad on one cube leaves the shape and every
\* element of every other cube's array unchanged.
C2_CopyOwnsArray ==
    [][/\ \A g \in Grids : \A h \in Grids :
            copy(g, h) => /\ (Arr(h))' = Arr(g)
                          /\ (Arr(g))' = Arr(g)
                          /\ cube'[h].array # cube'[g].array
       /\ \A h \in live :
            ArrayCall(h) => \A g \in live \ {h} : (Arr(g))' = Arr(g)]_vars

\* two cubes whose arrays have the same shape and differ in an element: one
\* of them was written after the copy
C2_Witness ==
    \E g \in live : \E h \in live :
        /\ g # h
        /\ Arr(g).sx = Arr(h).sx /\ Arr(g).sy = Arr(h).sy
        /\ Arr(g).data # Arr(h).data

\* g's array has the logical extent and no pad is recorded
Unpadded(g) ==
    /\ cube[g].padx = 0 /\ cube[g].pady = 0
    /\ Arr(g).sx = cube[g].n_px_x /\ Arr(g).sy = cube[g].n_px_y

\* array b is array a centred in a zero border of pad pixels
CentredIn(a, b, pad) ==
    /\ b.sx = a.sx + 2 * pad[1] /\ b.sy = a.sy + 2 * pad[2] /\ b.nc = a.nc
    /\ \A idx \in DOMAIN b.data :
          b.data[idx] =
             IF /\ idx[1] >= pad[1] /\ idx[1] < pad[1] + a.sx
                /\ idx[2] >= pad[2] /\ idx[2] < pad[2] + a.sy
             THEN a.data[<<idx[1] - pad[1], idx[2] - pad[2], idx[3]>>]
             ELSE 0

\* C3: padding round trip: on an unpadded cube (no pad recorded, array of
\* the logical extent) with any contents, add_pad((px, py)) with px, py >= 1
\* puts the data at [px : px + n_px_x, py : py + n_px_y] inside zeros, shifts
\* crpix by (px, py) and records the pad; drop_pad() called next restores the
\* array shape and contents, crpix, and pad (0, 0).
C3_PadRoundTrip ==
    [][\A g \in live : \A pad \in Pads :
         (add_pad(g, pad) /\ pad[1] >= 1 /\ pad[2] >= 1 /\ Unpadded(g)) =>
            /\ CentredIn(Arr(g), (Arr(g))', pad)
            /\ (Wcs(g))'.crpix[1] = Wcs(g).crpix[1] + 2 * pad[1]
            /\ (Wcs(g))'.crpix[2] = Wcs(g).crpix[2] + 2 * pad[2]
            /\ cube'[g].padx = pad[1] /\ cube'[g].pady = pad[2]
            /\ (drop_pad_arr(g)[drop_pad_cube(g)[g].array])' = Arr(g)
            /\ (drop_pad_wcs(g)[drop_pad_cube(g)[g].wcs])'.crpix = Wcs(g).crpix
            /\ (drop_pad_cube(g)[g].padx)' = 0
            /\ (drop_pad_cube(g)[g].pady)' = 0]_vars

\* a cube padded by at least one pixel on each side that holds a written
\* element inside the original extent
C3_Witness ==
    \E g \in live :
        /\ cube[g].padx >= 1 /\ cube[g].pady >= 1
        /\ Arr(g).sx = cube[g].n_px_x + 2 * cube[g].padx
        /\ Arr(g).sy = cube[g].n_px_y + 2 * cube[g].pady
        /\ \E idx \in DOMAIN Arr(g).data :
              /\ Arr(g).data[idx] = 1
              /\ idx[1] >= cube[g].padx /\ idx[2] >= cube[g].pady

\* the spectral calibration and channel caches of cube record c with WCS w
Spectral(c, w) ==
    <<w.crval[3], w.cdelt[3], w.ctype[3], w.cunit[3], c.units3,
      c.channel_mids, c.channel_edges>>

\* C4: frequency/velocity round trip: from velocity mode, freq_channels()
\* followed by velocity_channels() restores crval, cdelt, axis type, unit,
\* channel midpoints and channel edges; from frequency mode,
\* velocity_channels() followed by freq_channels() restores them too.
C4_FreqVelocityRoundTrip ==
    [][\A g \in live :
         /\ (freq_channels(g) /\ ~cube[g].freq_channel_mode) =>
               (Spectral(velocity_channels_cube(g)[g],
                         velocity_channels_wcs(g)[cube[g].wcs]))'
                  = Spectral(cube[g], Wcs(g))
         /\ (velocity_channels(g) /\ cube[g].freq_channel_mode) =>
               (Spectral(freq_channels_cube(g)[g],
                         freq_channels_wcs(g)[cube[g].wcs]))'
                  = Spectral(cube[g], Wcs(g))]_vars

\* the spatial calibration of WCS w
Spatial(w) ==
    <<w.crpix[1], w.crpix[2], w.cdelt[1], w.cdelt[2], w.crval[1], w.crval[2],
      w.ctype[1], w.ctype[2], w.cunit[1], w.cunit[2]>>

\* C5: mode conversion is idempotent: freq_channels() called right after
\* freq_channels() on the same cube (and velocity_channels() right after
\* velocity_channels()) changes nothing: calibration, mode flag, channel
\* midpoints and edges stay as the first call left them; and no mode
\* conversion changes a sample array, the spatial calibration or a pad.
C5_ModeIdempotent ==
    [][\A g \in live :
         /\ freq_channels(g) =>
               /\ (freq_channels_cube(g))' = cube'
               /\ (freq_channels_wcs(g))' = wcsHeap'
         /\ velocity_channels(g) =>
               /\ (velocity_channels_cube(g))' = cube'
               /\ (velocity_channels_wcs(g))' = wcsHeap'
         /\ (freq_channels(g) \/ velocity_channels(g)) =>
               /\ arrHeap' = arrHeap
               /\ \A w \in WcsIds : Spatial(wcsHeap'[w]) = Spatial(wcsHeap[w])
               /\ \A h \in live : /\ cube'[h].padx = cube[h].padx
                                  /\ cube'[h].pady = cube[h].pady
                                  /\ cube'[h].array = cube[h].array]_vars

\* a cube that freq_channels() has switched to frequency mode
C5_Witness ==
    \E g \in live :
        /\ cube[g].freq_channel_mode
        /\ cube[g].units3 = "Hz"
        /\ Wcs(g).ctype[3] = "FREQ-OBS"

\* C6: extent invariant: the sample array of every cube has the shape
\* (n_px_x + 2*padx, n_px_y + 2*pady, n_channels, 1).
C6_ExtentInvariant ==
    \A g \in live :
        /\ Arr(g).sx = cube[g].n_px_x + 2 * cube[g].padx
        /\ Arr(g).sy = cube[g].n_px_y + 2 * cube[g].pady
        /\ Arr(g).nc = cube[g].n_channels

\* C7: the spatial reference pixel of every cube is
\* (n_px_x/2 + 0.5 + padx, n_px_y/2 + 0.5 + pady) for its own recorded pad
\* (crpix is stored doubled).
C7_CrpixTracksPad ==
    \A g \in live :
        /\ Wcs(g).crpix[1] = cube[g].n_px_x + 1 + 2 * cube[g].padx
        /\ Wcs(g).crpix[2] = cube[g].n_px_y + 1 + 2 * cube[g].pady

\* C8: one spectral mode, consistently: the mode flag is set exactly when
\* the spectral axis type is FREQ with unit Hz and the cube's spectral unit
\* is Hz; otherwise the axis is VELO in m/s and the cube's unit is m/s.
C8_ModeConsistent ==
    \A g \in live :
        IF cube[g].freq_channel_mode
        THEN /\ Wcs(g).ctype[3] = "FREQ-OBS"
             /\ Wcs(g).cunit[3] = "Hz"
             /\ cube[g].units3 = "Hz"
        ELSE /\ Wcs(g).ctype[3] = "VELO-OBS"
             /\ Wcs(g).cunit[3] = "m s-1"
             /\ cube[g].units3 = "m s-1"

\* C9: no partial state on failure: when add_pad raises, the sample array
\* (shape and contents), the reference pixel and the recorded pad are what
\* they were before the call.
C9_AddPadFailureAtomic ==
    [][\A g \in live : \A pad \in Pads :
         (add_pad(g, pad) /\ ~pad_assignable(g, pad)) =>
            /\ (Arr(g))' = Arr(g)
            /\ (Wcs(g))'.crpix = Wcs(g).crpix
            /\ cube'[g].padx = cube[g].padx
            /\ cube'[g].pady = cube[g].pady]_vars

\* C10: spectra() reflects the current padded state: it yields
\* (n_px_x + 2*padx) * (n_px_y + 2*pady) spectra of n_channels values, the
\* spectrum of pixel (i, j) in flattened order being array[i, j, :, 0].
C10_SpectraOfPaddedArray ==
    \A g \in live :
        /\ spectra(g).result = "ok"
        /\ Len(spectra(g).rows) =
              (cube[g].n_px_x + 2 * cube[g].padx)
                 * (cube[g].n_px_y + 2 * cube[g].pady)
        /\ \A idx \in DOMAIN Arr(g).data :
              spectra(g).rows[idx[1] * Arr(g).sy + idx[2] + 1][idx[3] + 1]
                 = Arr(g).data[idx]

\* the 1-based positions of the truthy entries of a mask
Truthy(mask) == {i \in 1..Len(mask.vals) : mask.vals[i] = 1}

\* `after` holds exactly the entries of `before` at the truthy positions of
\* the mask, in their original relative order
Kept(before, after, mask) ==
    /\ Len(after) = Cardinality(Truthy(mask))
    /\ \A i \in Truthy(mask) :
          after[Cardinality({j \in Truthy(mask) : j <= i})] = before[i]

\* C11: apply_mask with a mask of length npart and at least one truthy entry
\* keeps exactly the particles whose mask entry is truthy, in order, in the
\* positions, the velocities and every per-particle field; a scalar field is
\* unchanged; all per-particle arrays then have as many entries as the mask
\* has truthy ones.
C11_MaskKeepsTruthy ==
    [][\A mask \in Masks :
         (/\ apply_mask(mask)
          /\ Len(mask.vals) = source.npart
          /\ Truthy(mask) # {}) =>
            /\ Kept(source.xyz, source'.xyz, mask)
            /\ Kept(source.vxyz, source'.vxyz, mask)
            /\ Kept(source.T_g, source'.T_g, mask)
            /\ Kept(source.mHI_g, source'.mHI_g, mask)
            /\ source'.hsm_g = source.hsm_g
            /\ source'.npart = Cardinality(Truthy(mask))]_vars

\* C12: apply_mask rejects a bad mask and changes nothing: a mask whose
\* length differs from npart raises the length-mismatch error, a mask of
\* length npart without a truthy entry raises the empty-selection error, and
\* positions, velocities, extra fields and npart are as before the call.
C12_BadMaskRejected ==
    [][\A mask \in Masks :
         (/\ apply_mask(mask)
          /\ (Len(mask.vals) # source.npart \/ Truthy(mask) = {})) =>
            /\ outcome'.result =
                 IF Len(mask.vals) # source.npart
                 THEN "LengthMismatchError"
                 ELSE "EmptySelectionError"
            /\ source' = source]_vars

\* a mask of the right length that selects nothing was rejected on an
\* ensemble of several particles
C12_Witness ==
    /\ outcome.op = "apply_mask"
    /\ outcome.result = "EmptySelectionError"
    /\ Len(outcome.mask.vals) = source.npart
    /\ source.npart >= 2

\* the arrays are 3 x 3 and no coordinate_axis is given
Ambiguous(xs, axis) == xs = <<3, 3>> /\ axis = -1

Transpose(M) == [i \in 1..3 |-> [j \in 1..3 |-> M[j][i]]]

Det(M) ==
    M[1][1] * (M[2][2] * M[3][3] - M[2][3] * M[3][2])
      - M[1][2] * (M[2][1] * M[3][3] - M[2][3] * M[3][1])
      + M[1][3] * (M[2][1] * M[3][2] - M[2][2] * M[3][1])

\* orthonormal with determinant +1
ProperRotation(M) == MatMul(M, Transpose(M)) = Identity /\ Det(M) = 1

\* C14: rotate(matrix=M) with M not orthonormal of determinant +1 fails with
\* InvalidRotationError and leaves positions, velocities and the cumulative
\* orientation unchanged, so that the cumulative orientation is a proper
\* rotation after every call.
C14_RotateValidatesMatrix ==
    [][/\ \A M \in RotMats :
            (rotate(M) /\ ~ProperRotation(M)) =>
               /\ outcome'.result = "InvalidRotationError"
               /\ source' = source
       /\ ProperRotation(source'.current_rotation)]_vars

\* R_k . ... . R_2 . R_1 for the sequence <<R_1, ..., R_k>>
RECURSIVE Composed(_)
Composed(Rs) ==
    IF Rs = <<>>
    THEN Identity
    ELSE MatMul(Rs[Len(Rs)], Composed(SubSeq(Rs, 1, Len(Rs) - 1)))

\* C15: the cumulative orientation composes by left-multiplication: it is
\* the identity on a freshly constructed ensemble and R_k . ... . R_1 after
\* rotate calls with R_1, ..., R_k in that order; translate and mask calls
\* leave it unchanged; save_current_rotation writes exactly this matrix.
C15_OrientationComposes ==
    [][/\ source'.constructed =>
            source'.current_rotation = Composed(rotations')
       /\ (\/ \E t \in Translations :
                translate_position(t) \/ translate_velocity(t)
           \/ \E mask \in Masks : apply_mask(mask)) =>
            source'.current_rotation = source.current_rotation
       /\ save_current_rotation => rotfile' = Composed(rotations)]_vars

\* two rotations that do not commute were applied and the orientation saved
C15_Witness ==
    /\ rotations = <<Rz90, Rx90>>
    /\ rotfile = source.current_rotation
    /\ ntranslate > 0

\* the unit vector pointing at (ra, dec)
Pointing(ra, dec) ==
    <<cos(dec) * cos(ra), cos(dec) * sin(ra), sin(dec)>>

\* the row vector p turned about y by dec, then about z by -ra
Turned(p, ra, dec) ==
    LET q == <<p[1] * cos(dec) - p[3] * sin(dec),
               p[2],
               p[1] * sin(dec) + p[3] * cos(dec)>>
    IN  <<q[1] * cos(ra) - q[2] * sin(ra),
          q[1] * sin(ra) + q[2] * cos(ra),
          q[3]>>

\* C16: sky projection is rotate-then-translate along the line of sight:
\* every position becomes the raw position rotated by R_y(dec) . R_z(-ra)
\* plus distance times the unit vector pointing at (ra, dec), which is the
\* image of +x under the rotation, and every velocity the raw velocity
\* rotated plus (H0 * distance + vpeculiar) times that vector; with
\* ra = dec = 0 only the x-components change.
C16_SkyProjection ==
    [][\A ra \in Angles : \A dec \in Angles : \A distance \in Distances :
       \A vpeculiar \in PeculiarVelocities :
         project_to_sky(ra, dec, distance, vpeculiar) =>
            /\ Pointing(ra, dec) = Turned(<<1, 0, 0>>, ra, dec)
            /\ Len(source'.xyz) = Len(source.xyz)
            /\ Len(source'.vxyz) = Len(source.vxyz)
            /\ \A i \in 1..Len(source.xyz) : \A c \in 1..3 :
                 /\ source'.xyz[i][c] =
                       Turned(source.xyz[i], ra, dec)[c]
                          + distance * Pointing(ra, dec)[c]
                 /\ source'.vxyz[i][c] =
                       Turned(source.vxyz[i], ra, dec)[c]
                          + ((H0 * distance) \div 1000 + vpeculiar)
                               * Pointing(ra, dec)[c]
            /\ (ra = 0 /\ dec = 0) =>
                 \A i \in 1..Len(source.xyz) :
                    /\ source'.xyz[i] =
                          <<source.xyz[i][1] + distance,
                            source.xyz[i][2], source.xyz[i][3]>>
                    /\ source'.vxyz[i] =
                          <<source.vxyz[i][1] + (H0 * distance) \div 1000
                               + vpeculiar,
                            source.vxyz[i][2], source.vxyz[i][3]>>]_vars

\* an ensemble was placed a quarter turn east at 3 Mpc with a peculiar
\* velocity
C16_Witness ==
    /\ outcome.op = "project_to_sky"
    /\ outcome.ra = 1
    /\ outcome.dec = 0
    /\ outcome.distance = 3000
    /\ outcome.vpeculiar = 100
    /\ source.projected
    /\ source.npart = 2

\* C17: add_pad accepts a zero pad component: for every pad (px, py) with
\* px, py >= 0 add_pad on an unpadded cube returns normally with the data
\* centred in an array of shape (n_px_x + 2 px, n_px_y + 2 py, n_channels, 1)
\* that is zero elsewhere, crpix shifted by (px, py) and the pad recorded;
\* add_pad((0, 0)) leaves the array contents and the calibration unchanged.
C17_AddPadAcceptsZero ==
    [][\A g \in live : \A pad \in Pads :
         (add_pad(g, pad) /\ Unpadded(g)) =>
            /\ raises' = raises
            /\ CentredIn(Arr(g), (Arr(g))', pad)
            /\ (Wcs(g))'.crpix[1] = Wcs(g).crpix[1] + 2 * pad[1]
            /\ (Wcs(g))'.crpix[2] = Wcs(g).crpix[2] + 2 * pad[2]
            /\ cube'[g].padx = pad[1] /\ cube'[g].pady = pad[2]
            /\ pad = <<0, 0>> =>
                 (Arr(g))' = Arr(g) /\ (Wcs(g))' = Wcs(g)]_vars

\* C18: on a cube that is never copied, after any sequence of freq_channels,
\* velocity_channels, add_pad and drop_pad, channel_mids has n_channels
\* entries and channel_edges n_channels + 1, with
\* mids[i] = crval3 + cdelt3 * (i + 1 - crpix3) and
\* edges[i] = crval3 + cdelt3 * (i + 0.5 - crpix3) for the current spectral
\* calibration (both sides doubled below, crpix being kept doubled), so that
\* edges[i + 1] - edges[i] = cdelt3 and mids[i] is the midpoint of edges[i]
\* and edges[i + 1].
C18_CachesTrackCalibration ==
    \A g \in live :
        /\ Len(cube[g].channel_mids) = cube[g].n_channels
        /\ Len(cube[g].channel_edges) = cube[g].n_channels + 1
        /\ \A i \in 0..(cube[g].n_channels - 1) :
              /\ 2 * cube[g].channel_mids[i + 1] =
                    2 * Wcs(g).crval[3]
                      + Wcs(g).cdelt[3] * (2 * i + 2 - Wcs(g).crpix[3])
              /\ cube[g].channel_edges[i + 2] - cube[g].channel_edges[i + 1]
                    = Wcs(g).cdelt[3]
              /\ 2 * cube[g].channel_mids[i + 1] =
                    cube[g].channel_edges[i + 1] + cube[g].channel_edges[i + 2]
        /\ \A i \in 0..cube[g].n_channels :
              2 * cube[g].channel_edges[i + 1] =
                 2 * Wcs(g).crval[3]
                   + Wcs(g).cdelt[3] * (2 * i + 1 - Wcs(g).crpix[3])

\* a padded cube of two channels that was switched to frequency and back
C18_Witness ==
    /\ live = {1}
    /\ cube[1].n_channels = 2
    /\ cube[1].padx = 1
    /\ ~cube[1].freq_channel_mode
    /\ Wcs(1).cdelt[3] # cube[1].channel_width

\* the cube is as __init__ leaves it
Constructed(g) ==
    /\ ~cube[g].freq_channel_mode
    /\ cube[g].padx = 0 /\ cube[g].pady = 0
    /\ Arr(g) = Zeros(cube[g].n_px_x, cube[g].n_px_y, cube[g].n_channels)
    /\ Wcs(g) = NewWcs(cube[g].n_px_x, cube[g].n_px_y, cube[g].n_channels,
                       cube[g].channel_width, cube[g].velocity_centre)

\* C19: after construction with n_channels channels and spectral centre v0
\* the cube is in velocity mode with a zero-filled array and pad (0, 0), and
\* the channel whose midpoint is v0 is the one at 0-based index
\* n_channels // 2 of channel_mids: channel_mids[n_channels // 2] = v0.
C19_CentreChannel ==
    \A g \in live :
        Constructed(g) =>
           /\ cube[g].units3 = "m s-1"
           /\ cube[g].channel_mids[cube[g].n_channels \div 2 + 1]
                 = cube[g].velocity_centre

\* C20: switching the spectral mode does not change which physical interval
\* a channel index denotes: on a cube of positive channel width in velocity
\* mode, after freq_channels() every channel i has channel_mids[i] equal to
\* the conversion f0 * (1 - v_i / c) of the midpoint v_i it had before, and
\* the two edges bounding channel i are the conversions of the two velocity
\* edges that bounded it before.
C20_SwitchKeepsChannelIntervals ==
    [][\A g \in live :
         (/\ freq_channels(g)
          /\ ~cube[g].freq_channel_mode
          /\ cube[g].channel_width > 0
          /\ Wcs(g).cdelt[3] = cube[g].channel_width
          /\ Wcs(g).crval[3] = cube[g].velocity_centre) =>
            \A i \in 1..cube[g].n_channels :
               /\ cube'[g].channel_mids[i] =
                     convert_to_Hz(cube[g].channel_mids[i])
               /\ {cube'[g].channel_edges[i], cube'[g].channel_edges[i + 1]} =
                     {convert_to_Hz(cube[g].channel_edges[i]),
                      convert_to_Hz(cube[g].channel_edges[i + 1])}]_vars
====
